---- MODULE Spec2Model ----
(***************************************************************************)
(* Model of the OTW tracker adapter (src/trackers/OTW.py: upload and       *)
(* search_existing) and of the TVmaze show resolver (src/tvmaze.py:        *)
(* search_tvmaze, _make_tvmaze_request).                                   *)
(*                                                                         *)
(* One behaviour is one call of one of the three operations; `call` names  *)
(* it and `pc` is the position inside the coroutine.  Python strings whose *)
(* content the code inspects (lower(), split(), int(), `in`) are sequences *)
(* of one-character strings.  Console printing is not modelled, so the     *)
(* `debug` flag of search_tvmaze (printing only) does not appear.          *)
(***************************************************************************)
EXTENDS Integers, Sequences, FiniteSets, TLC

VARIABLES
  call,              \* which operation this behaviour runs
  pc,                \* position in the running coroutine
  ret,               \* value returned by the call (NotReturned before)
  meta,              \* release metadata of the OTW call
  open_torrent,      \* OTW.upload: state of the .torrent file handle
  response,          \* OTW.upload: body of the POST response
  registered,        \* OTW.upload: URL handed to add_tracker_torrent
  warned,            \* OTW.upload: "It may have uploaded, go check" printed
  gets,              \* number of HTTP GETs issued by the call
  posts,             \* number of HTTP POSTs issued by the call
  tvdbID,            \* search_tvmaze: normalized TVDB id
  imdbID,            \* search_tvmaze: normalized IMDb id
  manual_date,       \* search_tvmaze: date hint ("None" or a date)
  tvmaze_manual,     \* search_tvmaze: manual catalog id (raw)
  return_full_tuple, \* search_tvmaze: return mode
  results,           \* search_tvmaze: concatenated candidates
  stageOut,          \* search_tvmaze: what each stage appended to results
  invoked,           \* search_tvmaze: fetches made, in order, with outcome
  unique_results,    \* search_tvmaze: deduplicated candidates
  tvmaze_id,         \* search_tvmaze: resolved id
  line               \* search_tvmaze: last line read by input()

vars == << call, pc, ret, meta, open_torrent, response, registered, warned,
           gets, posts, tvdbID, imdbID, manual_date, tvmaze_manual,
           return_full_tuple, results, stageOut, invoked, unique_results,
           tvmaze_id, line >>

otwVars == << meta, open_torrent, response, registered, warned, posts >>

tvVars == << tvdbID, imdbID, manual_date, tvmaze_manual, return_full_tuple,
             results, stageOut, invoked, unique_results, tvmaze_id, line >>

(***************************************************************************)
(* Bounds of the model.                                                    *)
(***************************************************************************)
MaxId == 2          \* catalog ids are 1..MaxId
MaxSearch == 2      \* longest list answered by the title search
MaxKeywords == 2    \* longest keyword list of a release

(***************************************************************************)
(* Python values.                                                          *)
(***************************************************************************)
None == [t |-> "None"]
NotReturned == [t |-> "NotReturned"]
PyInt(n) == [t |-> "int", v |-> n]
PyStr(s) == [t |-> "str", s |-> s]
PyList(l) == [t |-> "list", l |-> l]
PyTuple(l) == [t |-> "tuple", l |-> l]

Digits == << "0", "1", "2", "3", "4", "5", "6", "7", "8", "9" >>
UpperAlpha == << "A", "B", "C", "D", "E", "F", "G", "H", "I", "J", "K", "L", "M",
                 "N", "O", "P", "Q", "R", "S", "T", "U", "V", "W", "X", "Y", "Z" >>
LowerAlpha == << "a", "b", "c", "d", "e", "f", "g", "h", "i", "j", "k", "l", "m",
                 "n", "o", "p", "q", "r", "s", "t", "u", "v", "w", "x", "y", "z" >>

IsDigit(c) == \E i \in 1..10 : Digits[i] = c
DigitVal(c) == (CHOOSE i \in 1..10 : Digits[i] = c) - 1

\* str.lower() on one character, then on a string
LowerChar(c) ==
  IF \E i \in 1..26 : UpperAlpha[i] = c
  THEN LowerAlpha[CHOOSE i \in 1..26 : UpperAlpha[i] = c]
  ELSE c
Lower(s) == [i \in 1..Len(s) |-> LowerChar(s[i])]

\* str.strip() of blanks, as int() does before parsing
RECURSIVE Strip(_)
Strip(s) ==
  IF s = << >> THEN s
  ELSE IF Head(s) = " " THEN Strip(Tail(s))
  ELSE IF s[Len(s)] = " " THEN Strip(SubSeq(s, 1, Len(s) - 1))
  ELSE s

RECURSIVE DigitsValue(_)
DigitsValue(s) ==
  IF s = << >> THEN 0
  ELSE 10 * DigitsValue(SubSeq(s, 1, Len(s) - 1)) + DigitVal(s[Len(s)])

\* int(str): blanks stripped, optional sign, one or more digits; anything
\* else raises ValueError (ok = FALSE)
ParseInt(s) ==
  LET b == Strip(s)
      signed == b # << >> /\ Head(b) \in {"-", "+"}
      d == IF signed THEN Tail(b) ELSE b
      good == d # << >> /\ \A i \in 1..Len(d) : IsDigit(d[i])
  IN  IF good
      THEN [ok |-> TRUE,
            v |-> IF signed /\ Head(b) = "-" THEN 0 - DigitsValue(d) ELSE DigitsValue(d)]
      ELSE [ok |-> FALSE, v |-> 0]

(***************************************************************************)
(* src/tvmaze.py                                                           *)
(***************************************************************************)
Names == {"X", "Y"}
Show == [id : 1..MaxId, name : Names]
NoShow == [id |-> 0, name |-> "-"]

\* JSON bodies: None, a dict with n keys (n = 0 is {}), a list
JDict(n, d) == [t |-> "dict", n |-> n, d |-> d, l |-> << >>]
JList(l) == [t |-> "list", n |-> 0, d |-> NoShow, l |-> l]
JNone == [t |-> "None", n |-> 0, d |-> NoShow, l |-> << >>]
EmptyDict == JDict(0, NoShow)

\* an element of the /search/shows answer: {"score":..,"show":{..}} or a
\* dict without the 'show' key
Wrapper(s) == [hasShow |-> TRUE, show |-> s]
NoShowItem == [hasShow |-> FALSE, show |-> NoShow]
SearchItems == {Wrapper(s) : s \in Show} \cup {NoShowItem}

SeqUpTo(S, n) == UNION {[1..k -> S] : k \in 0..n}

\* raw arguments of search_tvmaze
RawTvdbPool == {None, PyStr(<< >>), PyStr(<<"0">>), PyStr(<<"a", "b", "c">>),
                PyStr(<<"7">>), PyInt(0), PyInt(7)}
RawImdbPool == {None, PyStr(<<"0">>), PyStr(<<"a", "b", "c">>), PyStr(<<"t", "t">>),
                PyStr(<<"t", "t", "0", "0", "0", "0", "0", "0", "7">>), PyInt(7)}
ManualPool == {None, PyStr(<<"1">>), PyStr(<<"x">>)}
DateNone == "None"
DatePool == {DateNone, "2024-01-01"}
InputPool == {<<"0">>, <<"1">>, <<"2">>, <<"9">>, <<"-", "1">>, <<"a">>, << >>, <<" ", "1">>}

\* int(x) if x not in (None, '', '0') else 0, ValueError -> 0
NormalizeId(raw) ==
  IF raw = None \/ raw = PyStr(<< >>) \/ raw = PyStr(<<"0">>) THEN 0
  ELSE IF raw.t = "int" THEN raw.v
  ELSE IF ParseInt(raw.s).ok THEN ParseInt(raw.s).v ELSE 0

StartsWithTT(s) == Len(s) >= 2 /\ s[1] = "t" /\ s[2] = "t"

NormalizeImdb(raw) ==
  IF raw.t = "str" /\ StartsWithTT(raw.s)
  THEN LET p == ParseInt(SubSeq(raw.s, 3, Len(raw.s))) IN IF p.ok THEN p.v ELSE 0
  ELSE NormalizeId(raw)

\* truthiness of the tvmaze_manual argument
ManualGiven(m) == m # None /\ (m.t = "str" => m.s # << >>) /\ (m.t = "int" => m.v # 0)

ManualId(m) ==
  IF m.t = "int" THEN m.v
  ELSE IF ParseInt(m.s).ok THEN ParseInt(m.s).v ELSE 0

ReturnValue(full, id, imdb, tvdb) ==
  IF full THEN PyTuple(<<id, imdb, tvdb>>) ELSE PyInt(id)

\* what one GET can do
FailKinds == {"non200", "HTTPStatusError", "RequestError", "TimeoutException"}
LookupBodies == {JDict(2, s) : s \in Show} \cup {EmptyDict, JList(<< >>)}
SearchBodies == {JList(l) : l \in SeqUpTo(SearchItems, MaxSearch)}
Outcomes(bodies) ==
  {[kind |-> "ok", body |-> b] : b \in bodies}
    \cup {[kind |-> k, body |-> JNone] : k \in FailKinds \cup {"badjson"}}

\* a request that lets transport errors through
MakeTvmazeRequestMut(o) ==
  IF o.kind = "ok" THEN [raised |-> FALSE, value |-> o.body]
  ELSE IF o.kind \in {"badjson", "RequestError", "TimeoutException"}
       THEN [raised |-> TRUE, value |-> JNone]
  ELSE IF o.kind = "non200" THEN [raised |-> FALSE, value |-> JNone]
  ELSE [raised |-> FALSE, value |-> EmptyDict]

\* _make_tvmaze_request: 200 -> resp.json() (a JSONDecodeError is not an
\* httpx error and leaves the function), other status -> None,
\* HTTPStatusError / RequestError (TimeoutException is one) -> {}
MakeTvmazeRequest(o) ==
  IF o.kind = "ok" THEN [raised |-> FALSE, value |-> o.body]
  ELSE IF o.kind = "badjson" THEN [raised |-> TRUE, value |-> JNone]
  ELSE IF o.kind = "non200" THEN [raised |-> FALSE, value |-> JNone]
  ELSE [raised |-> FALSE, value |-> EmptyDict]

Truthy(j) ==
  /\ j.t # "None"
  /\ j.t = "dict" => j.n > 0
  /\ j.t = "list" => j.l # << >>

\* fetch_tvmaze_data
FetchTvmazeData(o) ==
  LET r == MakeTvmazeRequest(o)
  IN  IF r.raised THEN [raised |-> TRUE, data |-> << >>]
      ELSE IF Truthy(r.value)
           THEN [raised |-> FALSE,
                 data |-> IF r.value.t = "dict" THEN <<r.value.d>> ELSE r.value.l]
           ELSE [raised |-> FALSE, data |-> << >>]

\* [each['show'] for each in search_resp if 'show' in each]
RECURSIVE ExtractShows(_)
ExtractShows(search_resp) ==
  IF search_resp = << >> THEN << >>
  ELSE IF Head(search_resp).hasShow
       THEN <<Head(search_resp).show>> \o ExtractShows(Tail(search_resp))
       ELSE ExtractShows(Tail(search_resp))

\* guards that short-circuit with a date hint too / never short-circuit
RunImdbMut(md, res, imdb) == res = << >> /\ imdb # 0
RunTitleMut(md, res) == TRUE

\* the conditions guarding the three lookups (both branches of manual_date)
RunTvdb(md, tvdb) == tvdb # 0
RunImdb(md, res, imdb) ==
  IF md = DateNone THEN res = << >> /\ imdb # 0 ELSE imdb # 0
RunTitle(md, res) ==
  IF md = DateNone THEN res = << >> ELSE TRUE

\* seen = set(); [show for show in results if show['id'] not in seen and not seen.add(show['id'])]
RECURSIVE DedupFrom(_, _)
DedupFrom(rs, seen) ==
  IF rs = << >> THEN << >>
  ELSE IF Head(rs).id \in seen THEN DedupFrom(Tail(rs), seen)
       ELSE <<Head(rs)>> \o DedupFrom(Tail(rs), seen \cup {Head(rs).id})
\* a deduplication that keeps the last occurrence of each id
RECURSIVE DedupMut(_)
DedupMut(rs) ==
  IF rs = << >> THEN << >>
  ELSE IF \E k \in 2..Len(rs) : rs[k].id = Head(rs).id THEN DedupMut(Tail(rs))
       ELSE <<Head(rs)>> \o DedupMut(Tail(rs))

Dedup(rs) == DedupFrom(rs, {})

\* a range check that excludes the last candidate
ChoiceInRangeMut(choice, n) == 1 <= choice /\ choice < n

\* 1 <= choice <= len(unique_results)
ChoiceInRange(choice, n) == 1 <= choice /\ choice <= n

NoStageOut == [tvdb |-> << >>, imdb |-> << >>, title |-> << >>]

TvIdle ==
  /\ tvdbID = 0
  /\ imdbID = 0
  /\ manual_date = DateNone
  /\ tvmaze_manual = None
  /\ return_full_tuple = FALSE
  /\ results = << >>
  /\ stageOut = NoStageOut
  /\ invoked = << >>
  /\ unique_results = << >>
  /\ tvmaze_id = 0
  /\ line = << >>

\* lines 6-40: normalize the ids, return the manual id if one was given
TvCall ==
  /\ call = "search_tvmaze"
  /\ pc = "start"
  /\ \E rt \in RawTvdbPool, ri \in RawImdbPool, md \in DatePool,
        man \in ManualPool, full \in BOOLEAN :
       /\ tvdbID' = NormalizeId(rt)
       /\ imdbID' = NormalizeImdb(ri)
       /\ manual_date' = md
       /\ tvmaze_manual' = man
       /\ return_full_tuple' = full
       /\ IF ManualGiven(man)
          THEN /\ pc' = "done"
               /\ ret' = ReturnValue(full, ManualId(man), NormalizeImdb(ri), NormalizeId(rt))
          ELSE /\ pc' = "tvdb"
               /\ ret' = ret
  /\ UNCHANGED << call, otwVars, gets, results, stageOut, invoked, unique_results,
                  tvmaze_id, line >>

\* one lookup stage: skipped, or one GET whose answer extends results
Stage(name, run, bodies, isSearch, next) ==
  /\ call = "search_tvmaze"
  /\ pc = name
  /\ IF run
     THEN \E o \in Outcomes(bodies) :
            LET f == FetchTvmazeData(o)
                out == IF isSearch THEN ExtractShows(f.data) ELSE f.data
            IN  /\ gets' = gets + 1
                /\ invoked' = Append(invoked, [stage |-> name, kind |-> o.kind])
                /\ IF f.raised
                   THEN /\ pc' = "raised"
                        /\ UNCHANGED << results, stageOut >>
                   ELSE /\ pc' = next
                        /\ results' = results \o out
                        /\ stageOut' = [stageOut EXCEPT ![name] = out]
     ELSE /\ pc' = next
          /\ UNCHANGED << gets, invoked, results, stageOut >>
  /\ UNCHANGED << call, ret, otwVars, tvdbID, imdbID, manual_date, tvmaze_manual,
                  return_full_tuple, unique_results, tvmaze_id, line >>

\* lines 51-52 / 61-62
StageTvdb == Stage("tvdb", RunTvdb(manual_date, tvdbID), LookupBodies, FALSE, "imdb")
\* lines 54-55 / 64-65
StageImdb == Stage("imdb", RunImdb(manual_date, results, imdbID), LookupBodies, FALSE, "title")
\* lines 57-59 / 67-68
StageTitle == Stage("title", RunTitle(manual_date, results), SearchBodies, TRUE, "dedup")

\* lines 70-77 and 102-111: deduplicate; nothing left -> 0; no date hint ->
\* first candidate; date hint -> prompt
TvDedup ==
  /\ call = "search_tvmaze"
  /\ pc = "dedup"
  /\ LET u == Dedup(results)
     IN  /\ unique_results' = u
         /\ IF u = << >>
            THEN /\ pc' = "done"
                 /\ tvmaze_id' = tvmaze_id
                 /\ ret' = ReturnValue(return_full_tuple, tvmaze_id, imdbID, tvdbID)
            ELSE IF manual_date # DateNone
            THEN /\ pc' = "prompt"
                 /\ UNCHANGED << tvmaze_id, ret >>
            ELSE /\ pc' = "done"
                 /\ tvmaze_id' = u[1].id
                 /\ ret' = ReturnValue(return_full_tuple, u[1].id, imdbID, tvdbID)
  /\ UNCHANGED << call, otwVars, gets, tvdbID, imdbID, manual_date, tvmaze_manual,
                  return_full_tuple, results, stageOut, invoked, line >>

\* lines 87-101 and 111: one pass of the while True loop; input() is taken
\* to deliver a line
TvPrompt ==
  /\ call = "search_tvmaze"
  /\ pc = "prompt"
  /\ \E l \in InputPool :
       LET p == ParseInt(l)
           n == Len(unique_results)
       IN  /\ line' = l
           /\ IF ~p.ok
              THEN UNCHANGED << pc, tvmaze_id, ret >>
              ELSE IF p.v = 0
              THEN /\ pc' = "done"
                   /\ tvmaze_id' = tvmaze_id
                   /\ ret' = ReturnValue(return_full_tuple, tvmaze_id, imdbID, tvdbID)
              ELSE IF ChoiceInRange(p.v, n)
              THEN /\ pc' = "done"
                   /\ tvmaze_id' = unique_results[p.v].id
                   /\ ret' = ReturnValue(return_full_tuple, unique_results[p.v].id, imdbID, tvdbID)
              ELSE UNCHANGED << pc, tvmaze_id, ret >>
  /\ UNCHANGED << call, otwVars, gets, tvdbID, imdbID, manual_date, tvmaze_manual,
                  return_full_tuple, results, stageOut, invoked, unique_results >>

(***************************************************************************)
(* src/trackers/OTW.py                                                     *)
(***************************************************************************)
MaxDupes == 2       \* longest data list answered by the filter endpoint

\* str.split(sep) for a one-character separator
RECURSIVE Split(_, _)
Split(s, sep) ==
  IF \A i \in 1..Len(s) : s[i] # sep THEN <<s>>
  ELSE LET i == CHOOSE k \in 1..Len(s) : s[k] = sep /\ \A j \in 1..(k - 1) : s[j] # sep
       IN  <<SubSeq(s, 1, i - 1)>> \o Split(SubSeq(s, i + 1, Len(s)), sep)

\* sub in s, for two strings
Contains(s, sub) ==
  \E i \in 0..(Len(s) - Len(sub)) : SubSeq(s, i + 1, i + Len(sub)) = sub

\* get_cat_id, get_type_id, get_res_id
get_cat_id(category_name) ==
  CASE category_name = "MOVIE" -> "1"
    [] category_name = "TV" -> "2"
    [] OTHER -> "0"
get_type_id(type) ==
  CASE type = "DISC" -> "1"
    [] type = "REMUX" -> "2"
    [] type = "WEBDL" -> "4"
    [] type = "WEBRIP" -> "5"
    [] type = "HDTV" -> "6"
    [] type = "ENCODE" -> "3"
    [] OTHER -> "0"
get_res_id(resolution) ==
  CASE resolution = "8640p" -> "10"
    [] resolution = "4320p" -> "1"
    [] resolution = "2160p" -> "2"
    [] resolution = "1440p" -> "3"
    [] resolution = "1080p" -> "3"
    [] resolution = "1080i" -> "4"
    [] resolution = "720p" -> "5"
    [] resolution = "576p" -> "6"
    [] resolution = "576i" -> "7"
    [] resolution = "480p" -> "8"
    [] resolution = "480i" -> "9"
    [] OTHER -> "10"

\* the permitted genres of line 186 and the set literal of line 190
PermittedGenres == {"Animation", "Family"}
disallowed_keywords ==
  { <<"X", "X", "X">>,
    <<"E", "r", "o", "t", "i", "c">>,
    <<"P", "o", "r", "n">>,
    <<"H", "e", "n", "t", "a", "i">>,
    <<"A", "d", "u", "l", "t", " ", "A", "n", "i", "m", "a", "t", "i", "o", "n">>,
    <<"O", "r", "g", "y">>,
    <<"s", "o", "f", "t", "c", "o", "r", "e">> }
BluRay == <<"B", "l", "u", "R", "a", "y">>

\* a gate that lets any release with a genre through
GenreAllowedMut(genres) == genres # {}

\* any(genre in meta['genres'] for genre in ['Animation', 'Family'])
GenreAllowed(genres) == \E g \in PermittedGenres : g \in genres

\* any(keyword.lower() in disallowed_keywords for keyword in map(str.lower, meta['keywords']))
KeywordHit(keywords) ==
  \E i \in 1..Len(keywords) : Lower(Lower(keywords[i])) \in disallowed_keywords

\* meta['sd'] and 'BluRay' in meta['source']
SdFromBluRay(sd, source) == sd # 0 /\ Contains(source, BluRay)

\* releases handed to search_existing
GenrePool == {"Animation", "Family", "Comedy"}
KeywordPool == { <<"X", "X", "X">>, <<"h", "e", "n", "t", "a", "i">>,
                 <<"S", "o", "f", "t", "C", "o", "r", "e">>, <<"f", "u", "n", "n", "y">> }
SourcePool == { BluRay, <<"W", "E", "B">> }
CategoryPool == {"MOVIE", "TV"}
TypePool == {"REMUX", "UNKNOWN"}
ResolutionPool == {"1080p", "OTHER"}
EditionPool == { << >>, <<"D", "C">> }
Season == <<"S", "0", "1">>

IdleMeta ==
  [genres |-> {}, keywords |-> << >>, sd |-> 0, source |-> << >>, category |-> "MOVIE",
   type |-> "REMUX", resolution |-> "1080p", edition |-> << >>, debug |-> FALSE,
   skipping |-> "None"]

Releases ==
  { [IdleMeta EXCEPT !.genres = g, !.keywords = k, !.sd = sd, !.source = src,
                     !.category = c, !.type = ty, !.resolution = r, !.edition = e] :
      g \in SUBSET GenrePool, k \in SeqUpTo(KeywordPool, MaxKeywords), sd \in {0, 1},
      src \in SourcePool, c \in CategoryPool, ty \in TypePool, r \in ResolutionPool,
      e \in EditionPool }

\* lines 201-212, without the api token and tmdb id
SearchParams(m) ==
  [categories |-> get_cat_id(m.category),
   types |-> get_type_id(m.type),
   resolutions |-> get_res_id(m.resolution),
   name |-> (IF m.category = "TV" THEN <<" ">> \o Season ELSE << >>)
              \o (IF m.edition # << >> THEN <<" ">> \o m.edition ELSE << >>)]

\* answers of the filter endpoint: a 200 whose data list holds well-formed
\* entries (attributes.name present) or malformed ones, a 200 without a
\* usable body, another status, a timeout, a transport error
DupeItems == {[good |-> TRUE, name |-> "A"], [good |-> TRUE, name |-> "B"],
              [good |-> FALSE, name |-> "-"]}
SearchOutcomes ==
  {[kind |-> "200", data |-> d] : d \in SeqUpTo(DupeItems, MaxDupes)}
    \cup {[kind |-> k, data |-> << >>] :
            k \in {"200-badbody", "non200", "TimeoutException", "RequestError"}}

\* for each in data['data']: dupes.append(each['attributes']['name']); a
\* malformed entry raises and ends the loop with what was appended so far
RECURSIVE CollectNames(_)
CollectNames(data) ==
  IF data = << >> THEN << >>
  ELSE IF Head(data).good THEN <<Head(data).name>> \o CollectNames(Tail(data))
  ELSE << >>

\* a search that returns None when the status is not 200
SearchResultMut(o) ==
  IF o.kind = "200" THEN PyList(CollectNames(o.data))
  ELSE IF o.kind = "non200" THEN None
  ELSE PyList(<< >>)

\* lines 213-231: the value returned once the GET has been answered
SearchResult(o) ==
  IF o.kind = "200" THEN PyList(CollectNames(o.data))
  ELSE PyList(<< >>)

\* lines 185-212: the three gates; a release that passes them goes on to the GET
SearchCall ==
  /\ call = "search_existing"
  /\ pc = "start"
  /\ \E m \in Releases :
       IF ~GenreAllowed(m.genres)
       THEN /\ meta' = [m EXCEPT !.skipping = "OTW"]
            /\ ret' = None
            /\ pc' = "done"
       ELSE IF KeywordHit(m.keywords) \/ SdFromBluRay(m.sd, m.source)
       THEN /\ meta' = [m EXCEPT !.skipping = "OTW"]
            /\ ret' = PyList(<< >>)
            /\ pc' = "done"
       ELSE /\ meta' = m
            /\ ret' = ret
            /\ pc' = "get"
  /\ UNCHANGED << call, open_torrent, response, registered, warned, gets, posts, tvVars >>

\* lines 213-231: the GET and what is made of its answer
SearchGet ==
  /\ call = "search_existing"
  /\ pc = "get"
  /\ \E o \in SearchOutcomes :
       /\ gets' = gets + 1
       /\ response' = [kind |-> o.kind, params |-> SearchParams(meta)]
       /\ ret' = SearchResult(o)
       /\ pc' = "done"
  /\ UNCHANGED << call, meta, open_torrent, registered, warned, posts, tvVars >>

\* bodies of the upload POST response
TorrentsUrl == <<"h", "t", "t", "p", "s", ":", "/", "/", "o", "l", "d", "t", "o", "o", "n", "s", ".", "w", "o", "r", "l", "d", "/", "t", "o", "r", "r", "e", "n", "t", "s", "/">>
SiteData == <<"h", "t", "t", "p", "s", ":", "/", "/", "s", "i", "t", "e", "/", "t", "o", "r", "r", "e", "n", "t", "s", "/", "d", "o", "w", "n", "l", "o", "a", "d", "/", "1", "2", "3", ".", "a", "b", "c", "/", "4", "5", "6", "/", "7", "8", "9">>
TrackerData == <<"h", "t", "t", "p", "s", ":", "/", "/", "o", "l", "d", "t", "o", "o", "n", "s", ".", "w", "o", "r", "l", "d", "/", "t", "o", "r", "r", "e", "n", "t", "/", "d", "o", "w", "n", "l", "o", "a", "d", "/", "1", "2", "3", ".", "a", "b", "c">>
NoDotData == <<"n", "o", "d", "o", "t", "s">>
JsonData(d) == [json |-> TRUE, hasData |-> TRUE, dataIsStr |-> TRUE, data |-> d]
NonJson == [json |-> FALSE, hasData |-> FALSE, dataIsStr |-> FALSE, data |-> << >>]
JsonNoData == [json |-> TRUE, hasData |-> FALSE, dataIsStr |-> FALSE, data |-> << >>]
JsonDictData == [json |-> TRUE, hasData |-> TRUE, dataIsStr |-> FALSE, data |-> << >>]
NoResponse == [json |-> FALSE, hasData |-> FALSE, dataIsStr |-> FALSE, data |-> <<"-">>]
ResponsePool == {NonJson, JsonNoData, JsonDictData, JsonData(SiteData),
                 JsonData(TrackerData), JsonData(NoDotData)}

\* response.json()['data'].split(".")[i].split("/")[j]; any exception -> ok = FALSE
TorrentIdAt(r, i, j) ==
  IF ~(r.json /\ r.hasData /\ r.dataIsStr) THEN [ok |-> FALSE, t_id |-> << >>]
  ELSE LET a == Split(r.data, ".")
       IN  IF Len(a) < i + 1 THEN [ok |-> FALSE, t_id |-> << >>]
           ELSE LET b == Split(a[i + 1], "/")
                IN  IF Len(b) < j + 1 THEN [ok |-> FALSE, t_id |-> << >>]
                    ELSE [ok |-> TRUE, t_id |-> b[j + 1]]

\* the recipe with the last index off by one
TorrentIdMut(r) == TorrentIdAt(r, 1, 2)

\* line 175
TorrentId(r) == TorrentIdAt(r, 1, 3)

\* lines 80-169: stage the request; open() of a missing file raises
UploadCall ==
  /\ call = "upload"
  /\ pc = "start"
  /\ \E d \in BOOLEAN :
       /\ meta' = [meta EXCEPT !.debug = d]
       /\ \/ /\ open_torrent' = "open"
             /\ pc' = "send"
          \/ /\ open_torrent' = open_torrent
             /\ pc' = "raised"
  /\ UNCHANGED << call, ret, response, registered, warned, gets, posts, tvVars >>

\* lines 170-171: the POST; a transport error of requests.post is not caught
UploadPost ==
  /\ call = "upload"
  /\ pc = "send"
  /\ meta.debug = FALSE
  /\ posts' = posts + 1
  /\ \/ \E r \in ResponsePool :
          /\ response' = r
          /\ pc' = "parse"
     \/ /\ response' = response
        /\ pc' = "raised"
  /\ UNCHANGED << call, ret, meta, open_torrent, registered, warned, gets, tvVars >>

\* lines 172-179: parse the answer; success registers the torrent URL,
\* any exception prints the warning and returns
UploadParse ==
  /\ call = "upload"
  /\ pc = "parse"
  /\ LET t == TorrentId(response)
     IN  IF t.ok
         THEN /\ registered' = PyStr(TorrentsUrl \o t.t_id)
              /\ pc' = "close"
              /\ UNCHANGED << warned, ret >>
         ELSE /\ warned' = TRUE
              /\ ret' = None
              /\ pc' = "done"
              /\ registered' = registered
  /\ UNCHANGED << call, meta, open_torrent, response, gets, posts, tvVars >>

\* lines 180-182: debug mode prints the request instead of sending it
UploadDebug ==
  /\ call = "upload"
  /\ pc = "send"
  /\ meta.debug = TRUE
  /\ pc' = "close"
  /\ UNCHANGED << call, ret, meta, open_torrent, response, registered, warned,
                  gets, posts, tvVars >>

\* line 183
UploadClose ==
  /\ call = "upload"
  /\ pc = "close"
  /\ open_torrent' = "closed"
  /\ ret' = None
  /\ pc' = "done"
  /\ UNCHANGED << call, meta, response, registered, warned, gets, posts, tvVars >>

(***************************************************************************)
(* The three operations.                                                   *)
(***************************************************************************)
Calls == {"upload", "search_existing", "search_tvmaze"}

Init ==
  /\ call \in Calls
  /\ pc = "start"
  /\ ret = NotReturned
  /\ meta = IdleMeta
  /\ open_torrent = "unopened"
  /\ response = NoResponse
  /\ registered = None
  /\ warned = FALSE
  /\ gets = 0
  /\ posts = 0
  /\ TvIdle

Next ==
  \/ UploadCall
  \/ UploadPost
  \/ UploadParse
  \/ UploadDebug
  \/ UploadClose
  \/ SearchCall
  \/ SearchGet
  \/ TvCall
  \/ StageTvdb
  \/ StageImdb
  \/ StageTitle
  \/ TvDedup
  \/ TvPrompt

Spec == Init /\ [][Next]_vars

(***************************************************************************)
(* Properties.                                                             *)
(***************************************************************************)
InUpload == call = "upload"
InSearch == call = "search_existing"
InTvmaze == call = "search_tvmaze" /\ pc # "start" /\ ~ManualGiven(tvmaze_manual)

StageNames == [i \in 1..Len(invoked) |-> invoked[i].stage]
ReturnedId == IF ret.t = "tuple" THEN ret.l[1] ELSE ret.v

\* C1: every return of OTW.upload that follows the opening of the .torrent
\* handle leaves the handle closed (debug, parse success and the
\* "It may have uploaded, go check" path alike).
C1_HandleClosedOnReturn ==
  (InUpload /\ pc = "done") => open_torrent = "closed"

\* C2: the keyword gate matches case-insensitively: a release that passes the
\* genre gate and has a keyword equal, up to letter case, to a member of the
\* disallowed set is marked skipping = 'OTW' and returns without a GET.
C2_KeywordGateCaseInsensitive ==
  (/\ InSearch
   /\ pc # "start"
   /\ \E g \in {"Animation", "Family"} : g \in meta.genres
   /\ \E i \in 1..Len(meta.keywords) : \E d \in disallowed_keywords :
        Lower(meta.keywords[i]) = Lower(d))
    => (meta.skipping = "OTW" /\ gets = 0 /\ pc = "done")

\* C3: a release whose genres hold neither 'Animation' nor 'Family' is
\* rejected whatever its other fields are: skipping = 'OTW' is set, the call
\* has returned and no GET was issued at any point of the call.
C3_GenreGateBeforeHttp ==
  (/\ InSearch
   /\ pc # "start"
   /\ "Animation" \notin meta.genres
   /\ "Family" \notin meta.genres)
    => (meta.skipping = "OTW" /\ gets = 0 /\ pc = "done" /\ ret # NotReturned)

C3_Witness ==
  /\ InSearch
  /\ pc = "done"
  /\ meta.genres = {"Comedy"}
  /\ meta.keywords # << >>
  /\ meta.sd = 1
  /\ meta.skipping = "OTW"
  /\ gets = 0

Rejected == ~GenreAllowed(meta.genres) \/ KeywordHit(meta.keywords)
              \/ SdFromBluRay(meta.sd, meta.source)

\* C4 as stated: with the gates passed and the GET made, the call returns
\* None exactly when the status is not 200, and a list only after a 200.
C4_NoneOnNon200 ==
  (InSearch /\ pc = "done" /\ gets = 1)
    => /\ response.kind = "non200" <=> ret = None
       /\ ret.t = "list" => response.kind = "200"

\* C4 amended: with the gates passed, a non-200 answer makes the call return
\* the empty list and leaves skipping alone; None is returned only by the
\* genre-gate rejection; a non-empty list is returned only after a 200; a
\* rejection always comes with skipping set and without a GET.
C4_EmptyListOnNon200 ==
  (InSearch /\ pc = "done")
    => /\ (gets = 1 /\ response.kind = "non200")
            => (ret = PyList(<< >>) /\ meta.skipping = "None")
       /\ ret = None <=> ("Animation" \notin meta.genres /\ "Family" \notin meta.genres)
       /\ (ret.t = "list" /\ ret.l # << >>) => (gets = 1 /\ response.kind = "200")
       /\ Rejected <=> meta.skipping = "OTW"
       /\ Rejected <=> gets = 0

C4_Witness ==
  /\ InSearch
  /\ pc = "done"
  /\ gets = 1
  /\ response.kind = "non200"
  /\ ret = PyList(<< >>)

DateMode == InTvmaze /\ manual_date # DateNone
AutoMode == InTvmaze /\ manual_date = DateNone
LookupsOver == pc \in {"dedup", "prompt", "done"}

\* C5 as stated: with a date hint all three lookups are made on every call,
\* whatever the normalized ids are (0 included), and results is their
\* concatenation in the order TVDB, IMDb, title.
C5_AllStagesAlways ==
  (DateMode /\ LookupsOver)
    => /\ StageNames = <<"tvdb", "imdb", "title">>
       /\ results = stageOut.tvdb \o stageOut.imdb \o stageOut.title

\* C5 amended: with a date hint the title search is made on every call, the
\* TVDB lookup exactly when the normalized tvdbID is non-zero and the IMDb
\* lookup exactly when the normalized imdbID is non-zero, none of them being
\* skipped because an earlier stage matched; results is the concatenation of
\* what they returned in the order TVDB, IMDb, title.
C5_StagesByIdNoShortCircuit ==
  (DateMode /\ LookupsOver)
    => /\ StageNames = (IF tvdbID # 0 THEN <<"tvdb">> ELSE << >>)
                         \o (IF imdbID # 0 THEN <<"imdb">> ELSE << >>)
                         \o <<"title">>
       /\ results = stageOut.tvdb \o stageOut.imdb \o stageOut.title

C5_Witness ==
  /\ DateMode
  /\ pc = "prompt"
  /\ StageNames = <<"tvdb", "imdb", "title">>
  /\ stageOut.tvdb # << >>
  /\ stageOut.imdb # << >>
  /\ stageOut.title # << >>

FirstNonEmptyStage ==
  IF stageOut.tvdb # << >> THEN stageOut.tvdb
  ELSE IF stageOut.imdb # << >> THEN stageOut.imdb
  ELSE stageOut.title

\* C6: without a date hint a lookup is made only if every earlier stage gave
\* no results (so after a TVDB match neither the IMDb lookup nor the title
\* search is made), and the returned id is the id of the first candidate of
\* the first stage that gave results.
C6_ShortCircuitChain ==
  AutoMode
    => /\ \A i \in 1..Len(invoked) :
            /\ invoked[i].stage = "imdb" => stageOut.tvdb = << >>
            /\ invoked[i].stage = "title" => (stageOut.tvdb = << >> /\ stageOut.imdb = << >>)
       /\ (pc = "done" /\ FirstNonEmptyStage # << >>)
            => (ReturnedId = FirstNonEmptyStage[1].id /\ tvmaze_id = ReturnedId)

C6_Witness ==
  /\ AutoMode
  /\ pc = "done"
  /\ imdbID # 0
  /\ stageOut.tvdb # << >>
  /\ StageNames = <<"tvdb">>
  /\ ret = PyInt(stageOut.tvdb[1].id)

\* C7: a fetch that fails (status other than 200, transport error, timeout)
\* counts as an empty result and does not leave search_tvmaze as an
\* exception; when no stage gave anything the call returns 0, or
\* (0, imdbID, tvdbID) in full-tuple mode; each stage issues at most one GET.
C7_FailuresAreEmpty ==
  InTvmaze
    => /\ \A i \in 1..Len(invoked) :
            invoked[i].kind \in {"non200", "HTTPStatusError", "RequestError", "TimeoutException"}
              => /\ stageOut[invoked[i].stage] = << >>
                 /\ ~(pc = "raised" /\ i = Len(invoked))
       /\ (pc = "done" /\ stageOut = NoStageOut)
            => ret = (IF return_full_tuple THEN PyTuple(<<0, imdbID, tvdbID>>) ELSE PyInt(0))
       /\ \A i, j \in 1..Len(invoked) : invoked[i].stage = invoked[j].stage => i = j
       /\ gets = Len(invoked)

C7_Witness ==
  /\ InTvmaze
  /\ pc = "done"
  /\ Len(invoked) = 3
  /\ invoked[1].kind = "non200"
  /\ invoked[2].kind = "RequestError"
  /\ invoked[3].kind = "TimeoutException"
  /\ ret = PyTuple(<<0, 7, 7>>)

Parsed == InUpload /\ pc \in {"close", "done"} /\ posts = 1

RecipeApplies(d) ==
  \E i \in 1..Len(d) :
    /\ d[i] = "."
    /\ \A k \in 1..(i - 1) : d[k] # "."
    /\ \E e \in i..Len(d) :
         /\ \A k \in (i + 1)..e : d[k] # "."
         /\ e = Len(d) \/ d[e + 1] = "."
         /\ Cardinality({k \in (i + 1)..e : d[k] = "/"}) >= 3

FirstIndex(id) ==
  CHOOSE k \in 1..Len(results) :
    results[k].id = id /\ \A j \in 1..(k - 1) : results[j].id # id

\* C9: unique_results holds each id of results exactly once, each kept
\* element is the first element of results with its id, and kept elements
\* are in the order they have in results.
C9_DedupFirstSeen ==
  (InTvmaze /\ pc \in {"prompt", "done"})
    => /\ {unique_results[i].id : i \in 1..Len(unique_results)}
            = {results[i].id : i \in 1..Len(results)}
       /\ \A i, j \in 1..Len(unique_results) :
            unique_results[i].id = unique_results[j].id => i = j
       /\ \A i \in 1..Len(unique_results) :
            unique_results[i] = results[FirstIndex(unique_results[i].id)]
       /\ \A i, j \in 1..Len(unique_results) :
            i < j => FirstIndex(unique_results[i].id) < FirstIndex(unique_results[j].id)

C9_Witness ==
  /\ InTvmaze
  /\ pc = "prompt"
  /\ Len(results) >= 3
  /\ Len(unique_results) = 2
  /\ \E i, j \in 1..Len(results) :
       i < j /\ results[i].id = results[j].id /\ results[i].name # results[j].name

\* C10: a pass of the selection loop leaves the loop exactly when the line
\* read is 0 or a number in 1..n; 0 leaves the resolved id at 0, k in 1..n
\* resolves to the id of the k-th candidate, any other line reprompts with
\* the resolved id unchanged; the returned id is 0 or a listed candidate's.
C10_SelectionStep ==
  (call = "search_tvmaze" /\ pc = "prompt" /\ line' \in InputPool)
    => LET n == Len(unique_results)
           numeric == ParseInt(line').ok
           k == ParseInt(line').v
       IN  /\ pc' \in {"prompt", "done"}
           /\ pc' = "done" <=> (numeric /\ 0 <= k /\ k <= n)
           /\ (numeric /\ k = 0) => (tvmaze_id' = 0 /\ ReturnedId' = 0)
           /\ (numeric /\ 1 <= k /\ k <= n)
                => (tvmaze_id' = unique_results[k].id /\ ReturnedId' = tvmaze_id')
           /\ pc' = "prompt" => (tvmaze_id' = tvmaze_id /\ ret' = ret)
           /\ tvmaze_id' \in {0} \cup {unique_results[i].id : i \in 1..n}

C10_Selection == [][C10_SelectionStep]_vars

C10_Witness ==
  /\ DateMode
  /\ pc = "done"
  /\ Len(unique_results) = 2
  /\ line = <<"2">>
  /\ tvmaze_id = unique_results[2].id
  /\ unique_results[2].id # unique_results[1].id
  /\ ReturnedId = tvmaze_id

====
